---- MODULE Spec2Model ----
(***************************************************************************)
(* Model of three drivers of the repository.                               *)
(*                                                                         *)
(* crates/display-st7701s: the pure encoders format_command and            *)
(* format_data of the ST7701S command/data bit-framing codec, and the      *)
(* CommandDataShifter that chunks a byte slice, frames every chunk and     *)
(* hands it to the wrapped transport (SpecFormat, Spec).                   *)
(*                                                                         *)
(* crates/gt911-driver: GT911::query_touch with its command-mode bracket   *)
(* around every register access (SpecGT911).                               *)
(*                                                                         *)
(* crates/gps-generic, crates/generic-gps: GenericGps::receive_raw, the    *)
(* BufferGuard it returns and the receive_message loop (SpecGps).          *)
(*                                                                         *)
(* Rust buffers are 0-indexed; sequences here are 1-indexed, so the Rust   *)
(* place buffer[i] is buffer[i + 1] below.                                 *)
(***************************************************************************)
EXTENDS Integers, Sequences, FiniteSets, TLC

VARIABLES
    N,              \* const generic N: capacity of the framing buffer
    overflowChecks, \* build profile: TRUE = overflow-checks on (debug)
    buffer,         \* the framing buffer (CommandDataShifter.1 / the caller's slice)
    buffer0,        \* what the framing buffer held before the call
    blockingRun,    \* how the same call ended on a blocking shifter, if it was made
    pc,             \* position of the call
    op,             \* the function called
    fmt,            \* DataFormat variant of the argument
    input,          \* the bytes of the argument
    mode,           \* "blocking" or "async" implementation
    cursor,         \* number of chunks taken from slice.chunks(chunk_size)
    writes,         \* transport log: the writes issued so far, in order
    result,         \* what the call returned
    ret,            \* the slice returned by format_command / format_data
    panic,          \* "none", or the panic that ended the call
    \* GT911 touch controller driver
    gtMode,         \* "blocking" or "async" implementation
    gtPc,           \* position of the query_touch call
    gtStage,        \* the command-mode bracket the call is in
    gtIndex,        \* argument `index` of query_touch
    gtCount,        \* the touch count query_touch_count returned
    gtBody,         \* `result`: what the closure of the bracket returned
    gtBus,          \* I2C log: the register accesses issued so far, in order
    gtResult,       \* what query_touch returned
    gtPanic,        \* "none", or the panic that ended the call
    \* GenericGps UART driver
    gpsN,           \* const generic N: capacity of GenericGps.buffer
    gpsOp,          \* the function the caller uses
    gpsPc,          \* position of the call
    gpsIndex,       \* GenericGps.index
    gpsBuffer,      \* GenericGps.buffer
    gpsRet,         \* what the last receive_raw returned
    gpsAcc,         \* bytes the UART delivered since the previously returned message
    gpsDelivered,   \* number of bytes the UART delivered so far
    gpsPanic        \* "none", or the panic that ended the call

shifterVars == <<N, overflowChecks, buffer, buffer0, blockingRun, pc, op, fmt, input, mode,
                 cursor, writes, result, ret, panic>>

gtVars == <<gtMode, gtPc, gtStage, gtIndex, gtCount, gtBody, gtBus, gtResult,
            gtPanic>>

gpsVars == <<gpsN, gpsOp, gpsPc, gpsIndex, gpsBuffer, gpsRet, gpsAcc,
             gpsDelivered, gpsPanic>>

vars == <<shifterVars, gtVars, gpsVars>>

\* No call was made on a blocking shifter before this one.
NoRun == [pc |-> "none", writes |-> <<>>, result |-> "none", panic |-> "none"]

\* No CommandDataShifter exists.
NoShifter ==
    /\ N = 0
    /\ overflowChecks = FALSE
    /\ buffer = <<>>
    /\ buffer0 = <<>>
    /\ blockingRun = NoRun
    /\ pc = "none"
    /\ op = "none"
    /\ fmt = "none"
    /\ input = <<>>
    /\ mode = "none"
    /\ cursor = 0
    /\ writes = <<>>
    /\ result = "none"
    /\ ret = <<>>
    /\ panic = "none"

\* No GT911 driver exists.
NoGT911 ==
    /\ gtMode = "none"
    /\ gtPc = "none"
    /\ gtStage = "none"
    /\ gtIndex = 0
    /\ gtCount = 0
    /\ gtBody = [tag |-> "none"]
    /\ gtBus = <<>>
    /\ gtResult = [tag |-> "none"]
    /\ gtPanic = "none"

\* No GenericGps driver exists.
NoGps ==
    /\ gpsN = 0
    /\ gpsOp = "none"
    /\ gpsPc = "none"
    /\ gpsIndex = 0
    /\ gpsBuffer = <<>>
    /\ gpsRet = [tag |-> "none"]
    /\ gpsAcc = <<>>
    /\ gpsDelivered = 0
    /\ gpsPanic = "none"

----------------------------------------------------------------------------
(* u8 arithmetic *)

BitAt(x, i) == (x \div (2^i)) % 2

OrBit(a, b, i) == IF BitAt(a, i) = 1 \/ BitAt(b, i) = 1 THEN 2^i ELSE 0

\* a | b on u8
BitOr(a, b) ==
    OrBit(a, b, 0) + OrBit(a, b, 1) + OrBit(a, b, 2) + OrBit(a, b, 3)
    + OrBit(a, b, 4) + OrBit(a, b, 5) + OrBit(a, b, 6) + OrBit(a, b, 7)

\* x >> k on u8. With overflow checks off the amount is masked to 3 bits.
Shr(x, k) == x \div (2^(k % 8))

\* x << k on u8: bits shifted out of the byte are lost.
Shl(x, k) == (x * (2^(k % 8))) % 256

\* A shift of a u8 by 8 or more overflows: it panics when overflow checks
\* are on and wraps (masked amount) when they are off.
ShiftOverflows(k) == k >= 8

\* An encoder that leaves the caller's bytes in place instead of clearing them.
Zeroed_NoFill(buf) == buf

Zeroed(buf) == [i \in 1..Len(buf) |-> 0]

----------------------------------------------------------------------------
(* format_command / format_data *)

\* State of an encode in progress.
Enc(buf, carry, index, p) ==
    [buffer |-> buf, bit_carry |-> carry, byte_index |-> index, panic |-> p]

\* `for byte in iter { ... }`: remaining bytes, prefixed with a 1 bit.
RECURSIVE FormatLoop(_, _, _)
FormatLoop(st, iter, oc) ==
    IF iter = <<>> THEN st
    ELSE LET byte  == Head(iter)
             shift == st.byte_index % 8
         IN  IF oc /\ ShiftOverflows(shift + 1)
                THEN [st EXCEPT !.panic = "shift_overflow"]
             ELSE IF st.byte_index >= Len(st.buffer)
                THEN [st EXCEPT !.panic = "index_out_of_bounds"]
             ELSE FormatLoop(
                    Enc([st.buffer EXCEPT ![st.byte_index + 1] =
                            BitOr(@, BitOr(BitOr(Shr(st.bit_carry, shift),
                                                 Shr(byte, shift + 1)),
                                           Shl(1, 7 - shift)))],
                        Shl(byte, 7 - shift),
                        st.byte_index + 1,
                        "none"),
                    Tail(iter), oc)

\* Mutant of FormatRealign: the realignment loop is left out.
FormatRealign_NoFill(st) == st

\* `while !byte_index.is_multiple_of(8) { buffer[byte_index] = NOP; ... }`
RECURSIVE FormatRealign(_)
FormatRealign(st) ==
    IF st.byte_index % 8 = 0 THEN st
    ELSE IF st.byte_index >= Len(st.buffer)
        THEN [st EXCEPT !.panic = "index_out_of_bounds"]
    ELSE FormatRealign(
            [st EXCEPT !.buffer[st.byte_index + 1] = Shl(1, 7 - (st.byte_index % 8)),
                       !.byte_index = @ + 1])

\* Mutant of FormatFlush: the role bit of the carry byte is left out.
FormatFlush_NoRoleBit(st) ==
    IF st.panic # "none" THEN st
    ELSE IF st.byte_index % 8 = 0 THEN st
    ELSE IF st.byte_index >= Len(st.buffer)
        THEN [st EXCEPT !.panic = "index_out_of_bounds"]
    ELSE FormatRealign(
            [st EXCEPT !.buffer[st.byte_index + 1] = st.bit_carry,
                       !.byte_index = @ + 1])

\* `if !byte_index.is_multiple_of(8) { carry byte; realign }`
FormatFlush(st) ==
    IF st.panic # "none" THEN st
    ELSE IF st.byte_index % 8 = 0 THEN st
    ELSE IF st.byte_index >= Len(st.buffer)
        THEN [st EXCEPT !.panic = "index_out_of_bounds"]
    ELSE FormatRealign(
            [st EXCEPT !.buffer[st.byte_index + 1] =
                            BitOr(st.bit_carry, Shl(1, 7 - (st.byte_index % 8))),
                       !.byte_index = @ + 1])

\* What an encode leaves behind: the buffer, the length of the returned
\* slice &buffer[..len], and the panic that ended it instead (if any).
FormatResult(st) ==
    [buffer |-> st.buffer,
     len    |-> IF st.panic = "none" THEN st.byte_index ELSE 0,
     panic  |-> st.panic]

\* Mutant of format_command: no early return for an empty iterator.
format_command_NoEarlyReturn(iter, buf, oc) ==
    LET zeroed == Zeroed(buf)
    IN  IF iter = <<>>
            THEN FormatResult(FormatFlush(Enc(zeroed, 0, 1, "none")))
        ELSE IF Len(zeroed) = 0
            THEN [buffer |-> zeroed, len |-> 0, panic |-> "index_out_of_bounds"]
        ELSE LET cmd == Head(iter)
                 st0 == Enc([zeroed EXCEPT ![1] = BitOr(@, Shr(cmd, 1))],
                            Shl(cmd, 7), 1, "none")
             IN  FormatResult(FormatFlush(FormatLoop(st0, Tail(iter), oc)))

\* Mutant of format_command: the first byte gets the data role bit 0x80.
format_command_DataRoleBit(iter, buf, oc) ==
    LET zeroed == Zeroed(buf)
    IN  IF iter = <<>> THEN [buffer |-> zeroed, len |-> 0, panic |-> "none"]
        ELSE IF Len(zeroed) = 0
            THEN [buffer |-> zeroed, len |-> 0, panic |-> "index_out_of_bounds"]
        ELSE LET cmd == Head(iter)
                 st0 == Enc([zeroed EXCEPT ![1] = BitOr(@, BitOr(Shr(cmd, 1), 128))],
                            Shl(cmd, 7), 1, "none")
             IN  FormatResult(FormatFlush(FormatLoop(st0, Tail(iter), oc)))

format_command(iter, buf, oc) ==
    LET zeroed == Zeroed(buf)
    IN  IF iter = <<>> THEN [buffer |-> zeroed, len |-> 0, panic |-> "none"]
        ELSE IF Len(zeroed) = 0
            THEN [buffer |-> zeroed, len |-> 0, panic |-> "index_out_of_bounds"]
        ELSE LET cmd == Head(iter)
                 st0 == Enc([zeroed EXCEPT ![1] = BitOr(@, Shr(cmd, 1))],
                            Shl(cmd, 7), 1, "none")
             IN  FormatResult(FormatFlush(FormatLoop(st0, Tail(iter), oc)))

\* Mutant of format_data: the 0x80 role bit of the first byte is left out.
format_data_NoRoleBit(iter, buf, oc) == format_command(iter, buf, oc)

format_data(iter, buf, oc) ==
    LET zeroed == Zeroed(buf)
    IN  IF iter = <<>> THEN [buffer |-> zeroed, len |-> 0, panic |-> "none"]
        ELSE IF Len(zeroed) = 0
            THEN [buffer |-> zeroed, len |-> 0, panic |-> "index_out_of_bounds"]
        ELSE LET cmd == Head(iter)
                 st0 == Enc([zeroed EXCEPT ![1] = BitOr(@, BitOr(Shr(cmd, 1), 128))],
                            Shl(cmd, 7), 1, "none")
             IN  FormatResult(FormatFlush(FormatLoop(st0, Tail(iter), oc)))

----------------------------------------------------------------------------
(* Bounds and input sets *)

\* Longest input handed to one direct encode call.
MaxLen == 9

\* Payload bytes of the direct encode calls: 0x56 and its complement 0xA9,
\* so that every bit position takes both values.
Bytes == {86, 169}

\* The payload of the doctests of format_command and format_data.
RefPayload == <<18, 52, 86>>

SeqsUpTo(S, n) == UNION {[1..k -> S] : k \in 0..n}

FormatInputs == SeqsUpTo(Bytes, MaxLen) \cup {RefPayload}

\* Buffer capacities of the direct encode calls.
FormatCapacities == {0, 8, 10, 11, 16}

\* A fresh buffer ([0; N]) or one that holds earlier contents.
InitBuffers(n) == {[i \in 1..n |-> 0], [i \in 1..n |-> 255]}

----------------------------------------------------------------------------
(* SpecFormat: one direct call of format_command / format_data *)

InitFormat ==
    /\ N \in FormatCapacities
    /\ overflowChecks \in BOOLEAN
    /\ buffer \in InitBuffers(N)
    /\ buffer0 = buffer
    /\ blockingRun = NoRun
    /\ NoGT911
    /\ NoGps
    /\ pc = "start"
    /\ op \in {"format_command", "format_data"}
    /\ fmt = "U8Iter"
    /\ input \in FormatInputs
    /\ mode = "blocking"
    /\ cursor = 0
    /\ writes = <<>>
    /\ result = "none"
    /\ ret = <<>>
    /\ panic = "none"

Encode ==
    /\ pc = "start"
    /\ LET r == IF op = "format_command"
                   THEN format_command(input, buffer, overflowChecks)
                   ELSE format_data(input, buffer, overflowChecks)
       IN  /\ buffer' = r.buffer
           /\ ret' = SubSeq(r.buffer, 1, r.len)
           /\ panic' = r.panic
           /\ pc' = IF r.panic = "none" THEN "returned" ELSE "panicked"
    /\ UNCHANGED <<gtVars, gpsVars, N, overflowChecks, buffer0, blockingRun, op, fmt, input, mode, cursor, writes, result>>

NextFormat == Encode

SpecFormat == InitFormat /\ [][NextFormat]_vars

----------------------------------------------------------------------------
(* CommandDataShifter: send_commands / send_data, blocking and async *)

\* Longest byte slice or iterator handed to send_commands / send_data.
MaxSendLen == 16

\* Payloads of the sends: prefixes of 0x12, 0x34, 0x56, 0x78, ... (every
\* byte differs from its neighbours) and of its bitwise complement.
Ramp(i) == (18 + 34 * (i - 1)) % 256

SendInputs ==
    {[i \in 1..len |-> Ramp(i)] : len \in 0..MaxSendLen}
    \cup {[i \in 1..len |-> 255 - Ramp(i)] : len \in 0..MaxSendLen}

\* Buffer capacities of the shifter: chunk sizes 0, 7, 8 and 9.
Capacities == {1, 8, 9, 11}

\* DisplayError values the wrapped transport may return.
TransportErrors == {"BusWriteError", "DCError"}

TransportResults == {"Ok"} \cup TransportErrors

Min(a, b) == IF a < b THEN a ELSE b

\* `let chunk_size = N * 8 / 9;`
ChunkSize(n) == (n * 8) \div 9

\* slice.chunks(chunk_size): its j-th item (0-based) and its length.
Chunk(slice, cs, j) == SubSeq(slice, j * cs + 1, Min((j + 1) * cs, Len(slice)))

NumChunks(slice, cs) == (Len(slice) + cs - 1) \div cs

\* The slice &buffer[..byte_index] an encode returned.
Slice(r) == SubSeq(r.buffer, 1, r.len)

\* One transport call: the operation used, the bytes handed over, and how
\* it ended ("Pending" while an async write is in flight).
Write(via, bytes, res) == [via |-> via, bytes |-> bytes, res |-> res]

\* A panic ends the call; the buffer keeps what was written before it.
Panics(kind, buf) ==
    /\ pc' = "panicked"
    /\ panic' = kind
    /\ buffer' = buf
    /\ UNCHANGED <<cursor, writes, result>>

\* The call returns res.
Returns(res) ==
    /\ pc' = "returned"
    /\ result' = res

\* Mutant of Try: the error of a transport write is dropped.
Try_IgnoreError(res) ==
    /\ pc' = "loop"
    /\ UNCHANGED result

\* The `?` after a transport write: an error returns at once, Ok goes on
\* to the next chunk.
Try(res) ==
    IF res = "Ok"
        THEN /\ pc' = "loop"
             /\ UNCHANGED result
        ELSE Returns(res)

\* Mutant of Sends: the new write overtakes the writes issued before it.
Sends_Overtaking(via, r, res) ==
    /\ buffer' = r.buffer
    /\ writes' = <<Write(via, Slice(r), res)>> \o writes
    /\ UNCHANGED panic

\* The framed bytes of encode r go to the transport, which answers res.
Sends(via, r, res) ==
    /\ buffer' = r.buffer
    /\ writes' = Append(writes, Write(via, Slice(r), res))
    /\ UNCHANGED panic

\* The awaited transport write completes with res.
Completes(res) ==
    /\ writes' = [writes EXCEPT ![Len(writes)].res = res]
    /\ UNCHANGED <<buffer, cursor, panic>>

\* Mutant of InvalidFormat: the unknown variant is framed as an empty
\* iterator and written.
InvalidFormat_AsEmptyIter ==
    /\ buffer' = Zeroed(buffer)
    /\ writes' = Append(writes, Write(op, <<>>, "Ok"))
    /\ Returns("Ok")
    /\ UNCHANGED <<cursor, panic>>

\* `_ => Err(DisplayError::InvalidFormatError)`
InvalidFormat ==
    /\ Returns("InvalidFormatError")
    /\ UNCHANGED <<buffer, cursor, writes, panic>>

\* Mutant of ReturnsOk: an empty frame is written before the send returns.
ReturnsOk_AfterEmptyWrite ==
    /\ Returns("Ok")
    /\ writes' = Append(writes, Write(op, <<>>, "Ok"))
    /\ UNCHANGED <<buffer, cursor, panic>>

\* `for` loop exhausted: `Ok(())`
ReturnsOk ==
    /\ Returns("Ok")
    /\ UNCHANGED <<buffer, cursor, writes, panic>>

Init ==
    /\ N \in Capacities
    /\ overflowChecks \in BOOLEAN
    /\ buffer \in InitBuffers(N)
    /\ buffer0 = buffer
    /\ blockingRun = NoRun
    /\ NoGT911
    /\ NoGps
    /\ mode \in {"blocking", "async"}
    /\ pc = "idle"
    /\ op = "none"
    /\ fmt = "none"
    /\ input = <<>>
    /\ cursor = 0
    /\ writes = <<>>
    /\ result = "none"
    /\ ret = <<>>
    /\ panic = "none"

\* The driver calls send_commands or send_data with a DataFormat value.
Call ==
    /\ pc = "idle"
    /\ pc' = "called"
    /\ op' \in {"send_commands", "send_data"}
    /\ \/ fmt' \in {"U8", "U8Iter"} /\ input' \in SendInputs
       \/ fmt' = "Other" /\ input' = <<>>
    /\ UNCHANGED <<gtVars, gpsVars, N, overflowChecks, buffer0, blockingRun, buffer, mode, cursor, writes, result, ret, panic>>

blocking_send_commands ==
    /\ mode = "blocking"
    /\ op = "send_commands"
    /\ \/ /\ pc = "called"
          /\ fmt = "U8"
          /\ IF ChunkSize(N) = 0 THEN Panics("chunk_size_zero", buffer)
             ELSE IF input = <<>>
                THEN pc' = "loop" /\ UNCHANGED <<buffer, cursor, writes, result, panic>>
             ELSE LET cmd == format_command(Chunk(input, ChunkSize(N), 0),
                                            buffer, overflowChecks)
                  IN  IF cmd.panic # "none" THEN Panics(cmd.panic, cmd.buffer)
                      ELSE \E res \in TransportResults :
                              /\ Sends("send_commands", cmd, res)
                              /\ cursor' = cursor + 1
                              /\ Try(res)
       \/ /\ pc = "loop"
          /\ fmt = "U8"
          /\ IF cursor >= NumChunks(input, ChunkSize(N)) THEN ReturnsOk
             ELSE LET data == format_data(Chunk(input, ChunkSize(N), cursor),
                                          buffer, overflowChecks)
                  IN  IF data.panic # "none" THEN Panics(data.panic, data.buffer)
                      ELSE \E res \in TransportResults :
                              /\ Sends("send_data", data, res)
                              /\ cursor' = cursor + 1
                              /\ Try(res)
       \/ /\ pc = "called"
          /\ fmt = "U8Iter"
          /\ LET cmd == format_command(input, buffer, overflowChecks)
             IN  IF cmd.panic # "none" THEN Panics(cmd.panic, cmd.buffer)
                 ELSE \E res \in TransportResults :
                         /\ Sends("send_commands", cmd, res)
                         /\ UNCHANGED cursor
                         /\ Returns(res)
       \/ /\ pc = "called"
          /\ fmt = "Other"
          /\ InvalidFormat
    /\ UNCHANGED <<gtVars, gpsVars, N, overflowChecks, buffer0, blockingRun, op, fmt, input, mode, ret>>

blocking_send_data ==
    /\ mode = "blocking"
    /\ op = "send_data"
    /\ \/ /\ pc = "called"
          /\ fmt = "U8"
          /\ IF ChunkSize(N) = 0 THEN Panics("chunk_size_zero", buffer)
             ELSE pc' = "loop" /\ UNCHANGED <<buffer, cursor, writes, result, panic>>
       \/ /\ pc = "loop"
          /\ fmt = "U8"
          /\ IF cursor >= NumChunks(input, ChunkSize(N)) THEN ReturnsOk
             ELSE LET data == format_data(Chunk(input, ChunkSize(N), cursor),
                                          buffer, overflowChecks)
                  IN  IF data.panic # "none" THEN Panics(data.panic, data.buffer)
                      ELSE \E res \in TransportResults :
                              /\ Sends("send_data", data, res)
                              /\ cursor' = cursor + 1
                              /\ Try(res)
       \/ /\ pc = "called"
          /\ fmt = "U8Iter"
          /\ LET data == format_data(input, buffer, overflowChecks)
             IN  IF data.panic # "none" THEN Panics(data.panic, data.buffer)
                 ELSE \E res \in TransportResults :
                         /\ Sends("send_data", data, res)
                         /\ UNCHANGED cursor
                         /\ Returns(res)
       \/ /\ pc = "called"
          /\ fmt = "Other"
          /\ InvalidFormat
    /\ UNCHANGED <<gtVars, gpsVars, N, overflowChecks, buffer0, blockingRun, op, fmt, input, mode, ret>>

async_send_commands ==
    /\ mode = "async"
    /\ op = "send_commands"
    /\ \/ /\ pc = "called"
          /\ fmt = "U8"
          /\ IF ChunkSize(N) = 0 THEN Panics("chunk_size_zero", buffer)
             ELSE IF input = <<>>
                THEN pc' = "loop" /\ UNCHANGED <<buffer, cursor, writes, result, panic>>
             ELSE LET cmd == format_command(Chunk(input, ChunkSize(N), 0),
                                            buffer, overflowChecks)
                  IN  IF cmd.panic # "none" THEN Panics(cmd.panic, cmd.buffer)
                      ELSE /\ Sends("send_commands", cmd, "Pending")
                           /\ cursor' = cursor + 1
                           /\ pc' = "awaiting"
                           /\ UNCHANGED result
       \/ /\ pc = "loop"
          /\ fmt = "U8"
          /\ IF cursor >= NumChunks(input, ChunkSize(N)) THEN ReturnsOk
             ELSE LET data == format_data(Chunk(input, ChunkSize(N), cursor),
                                          buffer, overflowChecks)
                  IN  IF data.panic # "none" THEN Panics(data.panic, data.buffer)
                      ELSE /\ Sends("send_data", data, "Pending")
                           /\ cursor' = cursor + 1
                           /\ pc' = "awaiting"
                           /\ UNCHANGED result
       \/ /\ pc = "awaiting"
          /\ fmt = "U8"
          /\ \E res \in TransportResults :
                /\ Completes(res)
                /\ Try(res)
       \/ /\ pc = "called"
          /\ fmt = "U8Iter"
          /\ LET cmd == format_command(input, buffer, overflowChecks)
             IN  IF cmd.panic # "none" THEN Panics(cmd.panic, cmd.buffer)
                 ELSE /\ Sends("send_commands", cmd, "Pending")
                      /\ pc' = "awaiting"
                      /\ UNCHANGED <<cursor, result>>
       \/ /\ pc = "awaiting"
          /\ fmt = "U8Iter"
          /\ \E res \in TransportResults :
                /\ Completes(res)
                /\ Returns(res)
       \/ /\ pc = "called"
          /\ fmt = "Other"
          /\ InvalidFormat
    /\ UNCHANGED <<gtVars, gpsVars, N, overflowChecks, buffer0, blockingRun, op, fmt, input, mode, ret>>

\* Mutant of async_send_data: the async send hands its data chunks to the
\* transport's send_commands.
async_send_data_ViaCommands ==
    /\ mode = "async"
    /\ op = "send_data"
    /\ \/ /\ pc = "called"
          /\ fmt = "U8"
          /\ IF ChunkSize(N) = 0 THEN Panics("chunk_size_zero", buffer)
             ELSE pc' = "loop" /\ UNCHANGED <<buffer, cursor, writes, result, panic>>
       \/ /\ pc = "loop"
          /\ fmt = "U8"
          /\ IF cursor >= NumChunks(input, ChunkSize(N)) THEN ReturnsOk
             ELSE LET data == format_data(Chunk(input, ChunkSize(N), cursor),
                                          buffer, overflowChecks)
                  IN  IF data.panic # "none" THEN Panics(data.panic, data.buffer)
                      ELSE /\ Sends("send_commands", data, "Pending")
                           /\ cursor' = cursor + 1
                           /\ pc' = "awaiting"
                           /\ UNCHANGED result
       \/ /\ pc = "awaiting"
          /\ fmt = "U8"
          /\ \E res \in TransportResults :
                /\ Completes(res)
                /\ Try(res)
       \/ /\ pc = "called"
          /\ fmt = "U8Iter"
          /\ LET data == format_data(input, buffer, overflowChecks)
             IN  IF data.panic # "none" THEN Panics(data.panic, data.buffer)
                 ELSE /\ Sends("send_commands", data, "Pending")
                      /\ pc' = "awaiting"
                      /\ UNCHANGED <<cursor, result>>
       \/ /\ pc = "awaiting"
          /\ fmt = "U8Iter"
          /\ \E res \in TransportResults :
                /\ Completes(res)
                /\ Returns(res)
       \/ /\ pc = "called"
          /\ fmt = "Other"
          /\ InvalidFormat
    /\ UNCHANGED <<gtVars, gpsVars, N, overflowChecks, buffer0, blockingRun, op, fmt, input, mode, ret>>

async_send_data ==
    /\ mode = "async"
    /\ op = "send_data"
    /\ \/ /\ pc = "called"
          /\ fmt = "U8"
          /\ IF ChunkSize(N) = 0 THEN Panics("chunk_size_zero", buffer)
             ELSE pc' = "loop" /\ UNCHANGED <<buffer, cursor, writes, result, panic>>
       \/ /\ pc = "loop"
          /\ fmt = "U8"
          /\ IF cursor >= NumChunks(input, ChunkSize(N)) THEN ReturnsOk
             ELSE LET data == format_data(Chunk(input, ChunkSize(N), cursor),
                                          buffer, overflowChecks)
                  IN  IF data.panic # "none" THEN Panics(data.panic, data.buffer)
                      ELSE /\ Sends("send_data", data, "Pending")
                           /\ cursor' = cursor + 1
                           /\ pc' = "awaiting"
                           /\ UNCHANGED result
       \/ /\ pc = "awaiting"
          /\ fmt = "U8"
          /\ \E res \in TransportResults :
                /\ Completes(res)
                /\ Try(res)
       \/ /\ pc = "called"
          /\ fmt = "U8Iter"
          /\ LET data == format_data(input, buffer, overflowChecks)
             IN  IF data.panic # "none" THEN Panics(data.panic, data.buffer)
                 ELSE /\ Sends("send_data", data, "Pending")
                      /\ pc' = "awaiting"
                      /\ UNCHANGED <<cursor, result>>
       \/ /\ pc = "awaiting"
          /\ fmt = "U8Iter"
          /\ \E res \in TransportResults :
                /\ Completes(res)
                /\ Returns(res)
       \/ /\ pc = "called"
          /\ fmt = "Other"
          /\ InvalidFormat
    /\ UNCHANGED <<gtVars, gpsVars, N, overflowChecks, buffer0, blockingRun, op, fmt, input, mode, ret>>

\* The caller drops the future of an async send while its transport write
\* is pending: the send is abandoned at that suspension point.
Cancel ==
    /\ mode = "async"
    /\ pc = "awaiting"
    /\ pc' = "cancelled"
    /\ UNCHANGED <<gtVars, gpsVars, N, overflowChecks, buffer0, blockingRun, buffer, op, fmt, input, mode, cursor,
                   writes, result, ret, panic>>

Next ==
    \/ Call
    \/ blocking_send_commands
    \/ blocking_send_data
    \/ async_send_commands
    \/ async_send_data
    \/ Cancel

Spec == Init /\ [][Next]_vars

\* Two shifters of the same capacity, one blocking and one async, get the
\* same call: the blocking send runs first.
InitModes ==
    /\ Init
    /\ mode = "blocking"

\* The blocking send has ended; the same call is now made on the async
\* shifter, whose buffer holds what the blocking one's held at first.
SameCallAsync ==
    /\ mode = "blocking"
    /\ pc \in {"returned", "panicked"}
    /\ blockingRun' = [pc |-> pc, writes |-> writes, result |-> result,
                       panic |-> panic]
    /\ mode' = "async"
    /\ pc' = "called"
    /\ buffer' = buffer0
    /\ cursor' = 0
    /\ writes' = <<>>
    /\ result' = "none"
    /\ panic' = "none"
    /\ UNCHANGED <<gtVars, gpsVars, N, overflowChecks, buffer0, op, fmt, input, ret>>

NextModes ==
    \/ Next
    \/ SameCallAsync

SpecModes == InitModes /\ [][NextModes]_vars

----------------------------------------------------------------------------
(* GT911: query_touch and the command-mode bracket *)

\* Largest `index` argument tried; the touch count is a nibble (0..15).
MaxIndex == 16

I2CErrors == {"NoAcknowledge", "ArbitrationLoss"}

I2CResults == {"Ok"} \cup I2CErrors

\* Values the device can hold in its status register: the ready bit and a
\* touch count nibble.
StatusBytes == {ready + k : ready \in {0, 128}, k \in 0..15}

\* Values the device can hold in the 7 bytes of a touch point register.
TouchBytes == {<<0, 0, 0, 0, 0, 0, 0>>, <<1, 52, 18, 120, 86, 2, 1>>}

\* What the device holds in its product id and firmware version registers.
ProductId == <<57, 49, 49, 0>>

FirmwareVer == <<96, 16>>

\* DetectedTouch::from_bits_truncate: all eight bits belong to a flag.
from_bits_truncate(bits) == bits % 256

\* DetectedTouch::touch_count: `(self.bits() & TOUCH_POINT_MASK.bits())`
touch_count(bits) == bits % 16

from_le_bytes(lo, hi) == lo + 256 * hi

\* TouchPoint::from_bytes
from_bytes(data) ==
    [point |-> data[1],
     x |-> from_le_bytes(data[2], data[3]),
     y |-> from_le_bytes(data[4], data[5]),
     area |-> from_le_bytes(data[6], data[7])]

\* `match index` of query_touch, for the indices that have an arm.
TouchRegister(index) ==
    CASE index = 0 -> "GT911_TOUCH1_TRACK_ID"
      [] index = 1 -> "GT911_TOUCH2_TRACK_ID"
      [] index = 2 -> "GT911_TOUCH3_TRACK_ID"
      [] index = 3 -> "GT911_TOUCH4_TRACK_ID"
      [] index = 4 -> "GT911_TOUCH5_TRACK_ID"

\* <Touch as GT911Mode>::CLEAR_REGISTER
CLEAR_REGISTER == "GT911_STATUS"

Ok(value) == [tag |-> "Ok", value |-> value]

I2C(error) == [tag |-> "I2C", error |-> error]

InvalidPoint(index) == [tag |-> "InvalidPoint", index |-> index]

\* One I2C write of `data` to a register, and how it ended.
write_register(register, data, res) ==
    [kind |-> "write", register |-> register, data |-> data, res |-> res]

\* One I2C read of `len` bytes from a register, and how it ended.
read_register(register, len, res) ==
    [kind |-> "read", register |-> register, len |-> len, res |-> res]

\* query_touch returns r.
GtReturns(r) ==
    /\ gtPc' = "returned"
    /\ gtResult' = r

InitGT911 ==
    /\ NoShifter
    /\ NoGps
    /\ gtMode \in {"blocking", "async"}
    /\ gtPc = "idle"
    /\ gtStage = "none"
    /\ gtIndex = 0
    /\ gtCount = 0
    /\ gtBody = [tag |-> "none"]
    /\ gtBus = <<>>
    /\ gtResult = [tag |-> "none"]
    /\ gtPanic = "none"

\* query_touch(index) is called; it starts with query_touch_count, that is
\* the command-mode bracket of query_touch_status.
query_touch ==
    /\ gtPc = "idle"
    /\ gtIndex' \in 0..MaxIndex
    /\ gtStage' = "query_touch_status"
    /\ gtPc' = "enter"
    /\ UNCHANGED <<shifterVars, gpsVars, gtMode, gtCount, gtBody, gtBus,
                   gtResult, gtPanic>>

\* device_info() is called: one command-mode bracket around two reads.
device_info ==
    /\ gtPc = "idle"
    /\ gtStage' = "device_info"
    /\ gtPc' = "enter"
    /\ UNCHANGED <<shifterVars, gpsVars, gtMode, gtIndex, gtCount, gtBody, gtBus,
                   gtResult, gtPanic>>

\* command_mode!: `write_register(GT911_COMMAND, 0)?` (code 0, so no write
\* to GT911_COMMAND_CHECK).
command_mode_enter ==
    /\ gtPc = "enter"
    /\ \E res \in I2CResults :
          /\ gtBus' = Append(gtBus, write_register("GT911_COMMAND", 0, res))
          /\ IF res = "Ok"
                THEN gtPc' = "body" /\ UNCHANGED gtResult
                ELSE GtReturns(I2C(res))
    /\ UNCHANGED <<shifterVars, gpsVars, gtMode, gtStage, gtIndex, gtCount,
                   gtBody, gtPanic>>

\* Mutant of command_mode_body: the block is not wrapped in a closure, so
\* the `?` of a failed read returns from the function.
command_mode_body_EarlyReturn ==
    /\ gtPc = "body"
    /\ \E res \in I2CResults :
          /\ gtBus' = Append(gtBus, read_register(
                            CASE gtStage = "query_touch_status" -> "GT911_STATUS"
                              [] gtStage = "query_touch" -> TouchRegister(gtIndex)
                              [] gtStage = "device_info" -> "GT911_PRODUCT_ID1",
                            1, res))
          /\ IF res = "Ok"
                THEN /\ gtBody' = Ok(0)
                     /\ gtPc' = "exit"
                     /\ UNCHANGED gtResult
                ELSE /\ GtReturns(I2C(res))
                     /\ UNCHANGED gtBody
    /\ UNCHANGED <<shifterVars, gpsVars, gtMode, gtStage, gtIndex, gtCount,
                   gtPanic>>

\* command_mode!: the closure runs the block; a failed read ends the closure,
\* not the function.
command_mode_body ==
    /\ gtPc = "body"
    /\ \E res \in I2CResults :
          \/ /\ gtStage = "query_touch_status"
             /\ gtBus' = Append(gtBus, read_register("GT911_STATUS", 1, res))
             /\ IF res = "Ok"
                   THEN \E status \in StatusBytes :
                           gtBody' = Ok(from_bits_truncate(status))
                   ELSE gtBody' = I2C(res)
          \/ /\ gtStage = "query_touch"
             /\ gtBus' = Append(gtBus, read_register(TouchRegister(gtIndex), 7, res))
             /\ IF res = "Ok"
                   THEN \E buf \in TouchBytes : gtBody' = Ok(from_bytes(buf))
                   ELSE gtBody' = I2C(res)
          \/ /\ gtStage = "device_info"
             /\ IF res = "Ok"
                   THEN \E ver \in I2CResults :
                           /\ gtBus' = gtBus \o
                                 <<read_register("GT911_PRODUCT_ID1", 4, res),
                                   read_register("GT911_FIRMWARE_VER_LSB", 2, ver)>>
                           /\ IF ver = "Ok"
                                 THEN gtBody' = Ok([id |-> ProductId,
                                                    version |-> from_le_bytes(
                                                        FirmwareVer[1], FirmwareVer[2])])
                                 ELSE gtBody' = I2C(ver)
                   ELSE /\ gtBus' = Append(gtBus,
                                 read_register("GT911_PRODUCT_ID1", 4, res))
                        /\ gtBody' = I2C(res)
    /\ gtPc' = "exit"
    /\ UNCHANGED <<shifterVars, gpsVars, gtMode, gtStage, gtIndex, gtCount,
                   gtResult, gtPanic>>

\* command_mode!: `write_register(CLEAR_REGISTER, 0)?`, then `result`. The
\* result of the query_touch_status bracket goes through
\* `.map(DetectedTouch::touch_count)` and the `?` of query_touch.
command_mode_exit ==
    /\ gtPc = "exit"
    /\ \E res \in I2CResults :
          /\ gtBus' = Append(gtBus, write_register(CLEAR_REGISTER, 0, res))
          /\ IF res # "Ok"
                THEN GtReturns(I2C(res)) /\ UNCHANGED gtCount
                ELSE IF gtStage = "query_touch_status" /\ gtBody.tag = "Ok"
                        THEN /\ gtCount' = touch_count(gtBody.value)
                             /\ gtPc' = "match"
                             /\ UNCHANGED gtResult
                        ELSE GtReturns(gtBody) /\ UNCHANGED gtCount
    /\ UNCHANGED <<shifterVars, gpsVars, gtMode, gtStage, gtIndex, gtBody,
                   gtPanic>>

\* query_touch: `if index > count { return Err(InvalidPoint(index)) }`, then
\* `match index`, whose last arm is unreachable!().
query_touch_match ==
    /\ gtPc = "match"
    /\ IF gtIndex > gtCount
          THEN GtReturns(InvalidPoint(gtIndex)) /\ UNCHANGED <<gtStage, gtPanic>>
          ELSE IF gtIndex > 4
                  THEN /\ gtPc' = "panicked"
                       /\ gtPanic' = "unreachable"
                       /\ UNCHANGED <<gtStage, gtResult>>
                  ELSE /\ gtPc' = "enter"
                       /\ gtStage' = "query_touch"
                       /\ UNCHANGED <<gtResult, gtPanic>>
    /\ UNCHANGED <<shifterVars, gpsVars, gtMode, gtIndex, gtCount, gtBody, gtBus>>

NextGT911 ==
    \/ query_touch
    \/ device_info
    \/ command_mode_enter
    \/ command_mode_body
    \/ command_mode_exit
    \/ query_touch_match

SpecGT911 == InitGT911 /\ [][NextGT911]_vars

----------------------------------------------------------------------------
(* GenericGps: receive_raw, BufferGuard, receive_message *)

\* Number of bytes the UART delivers in one behaviour.
MaxStream == 6

\* b'\n'
NL == 10

\* Bytes the UART delivers: a letter and the newline.
UartBytes == {65, NL}

GpsCapacities == {4, 6}

UartErrors == {"Overrun"}

\* What uart.read(buf) can put at the front of a buffer of `room` bytes:
\* nothing when there is no room, else one byte or more.
Reads(room, left) ==
    IF room = 0
        THEN {<<>>}
        ELSE UNION {[1..n -> UartBytes] : n \in 1..Min(room, left)}

HasNewline(bytes) == \E i \in 1..Len(bytes) : bytes[i] = NL

\* 0-based position of the first newline of bytes.
FirstNewline(bytes) ==
    CHOOSE i \in 0..(Len(bytes) - 1) :
        /\ bytes[i + 1] = NL
        /\ \A j \in 1..i : bytes[j] # NL

\* <[u8]>::rotate_left
rotate_left(bytes, mid) ==
    SubSeq(bytes, mid + 1, Len(bytes)) \o SubSeq(bytes, 1, mid)

\* BufferGuard::new(buffer, end); as_slice is &buffer[..end].
BufferGuard(buf, end) ==
    [tag |-> "Some", end |-> end, slice |-> SubSeq(buf, 1, end)]

InitGps ==
    /\ NoShifter
    /\ NoGT911
    /\ gpsN \in GpsCapacities
    /\ gpsOp \in {"receive_raw", "receive_message"}
    /\ gpsPc = "idle"
    /\ gpsIndex = 0
    /\ gpsBuffer = [i \in 1..gpsN |-> 0]
    /\ gpsRet = [tag |-> "none"]
    /\ gpsAcc = <<>>
    /\ gpsDelivered = 0
    /\ gpsPanic = "none"

\* One call of receive_raw: by the caller, or by an iteration of the loop of
\* receive_message through try_receive_message.
receive_raw ==
    /\ gpsPc = "idle"
    /\ LET sub == SubSeq(gpsBuffer, gpsIndex + 1, gpsN)
       IN  \/ \E e \in UartErrors :
                /\ gpsRet' = [tag |-> "Err", error |-> e]
                /\ gpsPc' = IF gpsOp = "receive_message" THEN "returned" ELSE "idle"
                /\ UNCHANGED <<gpsIndex, gpsBuffer, gpsAcc, gpsDelivered, gpsPanic>>
           \/ \E data \in Reads(Len(sub), MaxStream - gpsDelivered) :
                LET received == Len(data)
                    filled == data \o SubSeq(sub, received + 1, Len(sub))
                    index == gpsIndex + received
                    hits == {i \in 0..(index - 1) : filled[i + 1] = NL}
                IN  /\ gpsBuffer' = SubSeq(gpsBuffer, 1, gpsIndex) \o filled
                    /\ gpsAcc' = gpsAcc \o data
                    /\ gpsDelivered' = gpsDelivered + received
                    /\ IF index > Len(filled)
                          THEN /\ gpsPc' = "panicked"
                               /\ gpsPanic' = "slice_end_out_of_range"
                               /\ gpsIndex' = index
                               /\ UNCHANGED gpsRet
                          ELSE IF hits = {}
                                  THEN /\ gpsIndex' = index
                                       /\ gpsRet' = [tag |-> "None"]
                                       /\ UNCHANGED <<gpsPc, gpsPanic>>
                                  ELSE /\ gpsIndex' = 0
                                       /\ gpsRet' = BufferGuard(gpsBuffer',
                                              CHOOSE i \in hits : \A j \in hits : i <= j)
                                       /\ gpsPc' = "guard"
                                       /\ UNCHANGED gpsPanic
    /\ UNCHANGED <<shifterVars, gtVars, gpsN, gpsOp>>

\* The guard is dropped: by the caller of receive_raw, or by the closure of
\* try_receive_message, after which receive_message returns Ok.
BufferGuard_drop ==
    /\ gpsPc = "guard"
    /\ gpsBuffer' = rotate_left(gpsBuffer, gpsRet.end)
    /\ gpsAcc' = IF HasNewline(gpsAcc)
                    THEN SubSeq(gpsAcc, FirstNewline(gpsAcc) + 2, Len(gpsAcc))
                    ELSE <<>>
    /\ IF gpsOp = "receive_message"
          THEN gpsPc' = "returned" /\ gpsRet' = [tag |-> "Ok"]
          ELSE gpsPc' = "idle" /\ gpsRet' = [tag |-> "none"]
    /\ UNCHANGED <<shifterVars, gtVars, gpsN, gpsOp, gpsIndex, gpsDelivered,
                   gpsPanic>>

NextGps ==
    \/ receive_raw
    \/ BufferGuard_drop

SpecGps == InitGps /\ [][NextGps]_vars

----------------------------------------------------------------------------
(* Properties of one encode call (SpecFormat) *)

\* Bit k (0-based, MSB first) of a byte sequence read as one bit stream.
StreamBit(bytes, k) == BitAt(bytes[(k \div 8) + 1], 7 - (k % 8))

\* The payload of 9-bit unit u (0-based): the 8 bits after its role bit.
UnitPayload(bytes, u) ==
    128 * StreamBit(bytes, 9 * u + 1) + 64 * StreamBit(bytes, 9 * u + 2)
    + 32 * StreamBit(bytes, 9 * u + 3) + 16 * StreamBit(bytes, 9 * u + 4)
    + 8 * StreamBit(bytes, 9 * u + 5) + 4 * StreamBit(bytes, 9 * u + 6)
    + 2 * StreamBit(bytes, 9 * u + 7) + StreamBit(bytes, 9 * u + 8)

\* The payloads of the complete 9-bit units of a byte sequence, in order.
DecodePayloads(bytes) ==
    [u \in 1..((8 * Len(bytes)) \div 9) |-> UnitPayload(bytes, u - 1)]

\* C1: round trip. For either role and every non-empty input of at most
\* floor(N*8/9) bytes, cutting the returned bytes into 9-bit units and
\* dropping the role bits gives back the input bytes, in order, followed
\* only by zero payloads.
C1_RoundTrip ==
    (pc = "returned" /\ input # <<>> /\ Len(input) <= ChunkSize(N)) =>
        LET d == DecodePayloads(ret)
        IN  /\ Len(d) >= Len(input)
            /\ SubSeq(d, 1, Len(input)) = input
            /\ \A k \in (Len(input) + 1)..Len(d) : d[k] = 0

\* C3: alignment. The slice returned for a non-empty input has a length
\* that is a positive multiple of 8.
C3_Alignment ==
    (pc = "returned" /\ input # <<>>) => (Len(ret) > 0 /\ Len(ret) % 8 = 0)

C3_Witness ==
    /\ pc = "returned"
    /\ Len(input) = 3
    /\ Len(ret) = 8

C8_RoleBit ==
    (pc = "returned" /\ input # <<>>) =>
        /\ (BitAt(ret[1], 7) = 0) <=> (op = "format_command")
        /\ (BitAt(ret[1], 7) = 1) <=> (op = "format_data")
        /\ ret[1] % 128 = input[1] \div 2

C8_Witness ==
    /\ pc = "returned"
    /\ op = "format_data"
    /\ input # <<>>
    /\ input[1] = 169
    /\ ret[1] = 212

\* C9: empty input. Encoding zero bytes returns the empty slice, for every
\* buffer capacity, capacity 0 included.
C9_EmptyInput ==
    (pc # "start" /\ input = <<>>) => (pc = "returned" /\ ret = <<>>)

C9_Witness ==
    /\ pc = "returned"
    /\ input = <<>>
    /\ N = 0
    /\ ret = <<>>

\* The encoding of the call's input into a buffer of N zero bytes.
CleanEncoding ==
    LET r == IF op = "format_command"
                THEN format_command(input, [i \in 1..N |-> 0], overflowChecks)
                ELSE format_data(input, [i \in 1..N |-> 0], overflowChecks)
    IN  SubSeq(r.buffer, 1, r.len)

\* C11: the bytes an encoder returns do not depend on what the buffer held
\* before the call (they equal the encoding into a zero buffer), and after
\* the call every buffer byte beyond the returned length is 0.
C11_NoResidualLeakage ==
    pc = "returned" =>
        /\ ret = CleanEncoding
        /\ \A i \in (Len(ret) + 1)..N : buffer[i] = 0

\* A three-byte payload was framed into a 16-byte buffer that held 0xFF in
\* every byte: 8 bytes are returned and the other 8 are zero.
C11_Witness ==
    /\ pc = "returned"
    /\ N = 16
    /\ buffer0 = [i \in 1..16 |-> 255]
    /\ input = RefPayload
    /\ Len(ret) = 8
    /\ ret[1] # 255
    /\ \A i \in 9..16 : buffer[i] = 0

\* Physical length n nine-bit units need: ceil(9n/8) bytes, rounded up to the
\* next multiple of 8.
RequiredLen(n) == 8 * ((((9 * n + 7) \div 8) + 7) \div 8)

\* C12: for a non-empty input of n bytes whose required physical length fits
\* the buffer, the returned length is that required length
\* (8 for n = 1..7, 16 for n = 8..14).
C12_ProducedLength ==
    (pc = "returned" /\ input # <<>> /\ RequiredLen(Len(input)) <= N) =>
        Len(ret) = RequiredLen(Len(input))

\* C18: byte layout inside one group. For an input of 2 to 7 bytes, returned
\* byte i (1 <= i < n) is, from the top bit down, the i low bits of payload
\* byte i-1, a role bit 1 at position 7-i, and the top 7-i bits of payload
\* byte i; returned byte n is the n low bits of payload byte n-1, a role
\* bit 1, and zeros.
C18_ByteLayout ==
    (pc = "returned" /\ Len(input) \in 2..7) =>
        LET n == Len(input)
        IN  /\ \A i \in 1..(n - 1) :
                  ret[i + 1] = ((input[i] * 2^(8 - i)) % 256)
                                 + 2^(7 - i)
                                 + (input[i + 1] \div 2^(i + 1))
            /\ ret[n + 1] = ((input[n] * 2^(8 - n)) % 256) + 2^(7 - n)

\* C19: data framing of continuation bytes. In an encode of n input bytes,
\* n up to floor(N*8/9), every input byte after the first is framed as Data:
\* bit 9*i of the returned bit stream is 1 for each 1 <= i < n.
C19_ContinuationRoleBits ==
    (pc = "returned" /\ Len(input) <= ChunkSize(N)) =>
        \A i \in 1..(Len(input) - 1) : StreamBit(ret, 9 * i) = 1

\* C20: filler units. When n is not a multiple of 8, every returned byte j
\* after the carry-flush byte (n < j < returned length) has exactly one bit
\* set, at position 7 - (j mod 8), and every trailing unit (unit n and
\* later) decodes as (Data, 0x00).
C20_FillerUnits ==
    (pc = "returned" /\ Len(input) % 8 # 0) =>
        LET n == Len(input)
        IN  /\ \A j \in (n + 1)..(Len(ret) - 1) : ret[j + 1] = 2^(7 - (j % 8))
            /\ \A u \in n..(((8 * Len(ret)) \div 9) - 1) :
                  /\ StreamBit(ret, 9 * u) = 1
                  /\ UnitPayload(ret, u) = 0

\* C22: shift amounts stay in range. For an input of at most floor(N*8/9)
\* bytes no encode ends in a shift-overflow panic, and an encode that
\* returned evaluated `byte >> (shift + 1)` with amounts below 8 only (no
\* wrapped shift), shift being byte_index % 8 for byte_index = 1 .. n-1.
C22_ShiftsInRange ==
    Len(input) <= ChunkSize(N) =>
        /\ panic # "shift_overflow"
        /\ pc = "returned" =>
              \A byte_index \in 1..(Len(input) - 1) :
                  ~ShiftOverflows((byte_index % 8) + 1)

\* What format_command and format_data return for the call's input and
\* the buffer as it was before the call.
AsCommand == format_command(input, buffer0, overflowChecks)

AsData == format_data(input, buffer0, overflowChecks)

\* C24: the Command and the Data encoding of the same input differ in exactly
\* one bit. Both encoders return or both panic; the returned slices have the
\* same length and the same bytes, except that the top bit of byte 0 is 0
\* from format_command and 1 from format_data.
C24_OneBitApart ==
    LET c == AsCommand
        d == AsData
    IN  /\ pc = "returned" =>
              /\ ret = Slice(IF op = "format_command" THEN c ELSE d)
              /\ c.panic = "none"
              /\ d.panic = "none"
              /\ c.len = d.len
              /\ \A i \in 2..c.len : c.buffer[i] = d.buffer[i]
              /\ c.len > 0 =>
                    /\ BitAt(c.buffer[1], 7) = 0
                    /\ d.buffer[1] = c.buffer[1] + 128
        /\ pc = "panicked" =>
              /\ c.panic = panic
              /\ d.panic = panic

\* format_data returned the reference payload framed as Data: byte 0 is
\* 0x89 where format_command gives 0x09.
C24_Witness ==
    /\ pc = "returned"
    /\ op = "format_data"
    /\ input = RefPayload
    /\ N = 8
    /\ ret[1] = 137
    /\ AsCommand.buffer[1] = 9
    /\ SubSeq(ret, 2, 8) = SubSeq(AsCommand.buffer, 2, 8)

----------------------------------------------------------------------------
(* Properties of one send (Spec) *)

\* The encoder a byte-slice send uses for its j-th chunk (0-based).
ChunkEncoder(j) ==
    IF op = "send_commands" /\ j = 0 THEN "format_command" ELSE "format_data"

\* The transport operation a send uses for its j-th write (0-based).
ChunkVia(j) ==
    IF op = "send_commands" /\ j = 0 THEN "send_commands" ELSE "send_data"

\* The bytes the j-th chunk (0-based) of the input encodes to.
ChunkEncoding(j) ==
    LET chunk == Chunk(input, ChunkSize(N), j)
        r == IF ChunkEncoder(j) = "format_command"
                THEN format_command(chunk, Zeroed(buffer), overflowChecks)
                ELSE format_data(chunk, Zeroed(buffer), overflowChecks)
    IN  Slice(r)

\* C2: chunk sizing is safe. With N >= 8, encoding a chunk of a byte-slice
\* send (at most floor(N*8/9) bytes), carry byte and filler included, only
\* writes buffer indices below N.
C2_ChunkFitsBuffer ==
    (fmt = "U8" /\ N >= 8) => panic # "index_out_of_bounds"

\* The first n payloads carried by the 9-bit units of a framed write.
Carried(bytes, n) ==
    LET d == DecodePayloads(bytes)
    IN  IF Len(d) >= n THEN SubSeq(d, 1, n) ELSE d

\* C4: multi-chunk dispatch. A byte-slice send of L bytes whose transport
\* writes all succeed ends having issued exactly ceil(L / floor(N*8/9))
\* writes, the j-th carrying the encoding of the j-th consecutive chunk, so
\* that the payloads carried by the writes, in order, are the input with no
\* byte duplicated or dropped.
C4_MultiChunkDispatch ==
    (/\ fmt = "U8"
     /\ N >= 8
     /\ pc \in {"returned", "panicked"}
     /\ \A k \in 1..Len(writes) : writes[k].res = "Ok") =>
        /\ pc = "returned"
        /\ result = "Ok"
        /\ Len(writes) = NumChunks(input, ChunkSize(N))
        /\ \A j \in 1..Len(writes) :
              /\ writes[j].bytes = ChunkEncoding(j - 1)
              /\ Carried(writes[j].bytes, Len(Chunk(input, ChunkSize(N), j - 1)))
                    = Chunk(input, ChunkSize(N), j - 1)

\* C5: role per chunk. Only the first write of send_commands is
\* command-framed (top bit of its first byte 0) and goes through the
\* transport's send_commands; every later write, and every write of
\* send_data, is data-framed (top bit 1) and goes through send_data.
C5_RolePerChunk ==
    \A j \in 1..Len(writes) :
        LET w == writes[j]
        IN  /\ fmt = "U8" => w.bytes # <<>>
            /\ IF op = "send_commands" /\ j = 1
                  THEN /\ w.via = "send_commands"
                       /\ w.bytes # <<>> => BitAt(w.bytes[1], 7) = 0
                  ELSE /\ w.via = "send_data"
                       /\ w.bytes # <<>> => BitAt(w.bytes[1], 7) = 1

C5_Witness ==
    /\ op = "send_commands"
    /\ fmt = "U8"
    /\ Len(writes) = 3
    /\ writes[1].via = "send_commands"
    /\ writes[3].via = "send_data"
    /\ BitAt(writes[1].bytes[1], 7) = 0
    /\ BitAt(writes[3].bytes[1], 7) = 1

\* C6: first-error abort. When the transport write of chunk k fails, the
\* send returns exactly that error; the failed write is the last one (no
\* retry, no later chunk framed or written: the buffer still holds chunk
\* k) and the k-1 writes before it stand as they were issued.
C6_FirstErrorAbort ==
    \A k \in 1..Len(writes) :
        writes[k].res \in TransportErrors =>
            /\ k = Len(writes)
            /\ pc = "returned"
            /\ result = writes[k].res
            /\ fmt = "U8" => cursor = k
            /\ SubSeq(buffer, 1, Len(writes[k].bytes)) = writes[k].bytes
            /\ \A j \in 1..(k - 1) :
                  /\ writes[j].res = "Ok"
                  /\ writes[j].via = ChunkVia(j - 1)
                  /\ writes[j].bytes = ChunkEncoding(j - 1)

C6_Witness ==
    /\ fmt = "U8"
    /\ N = 8
    /\ NumChunks(input, ChunkSize(N)) = 3
    /\ Len(writes) = 2
    /\ writes[1].res = "Ok"
    /\ writes[2].res = "DCError"
    /\ pc = "returned"
    /\ result = "DCError"

\* C13: in-order prefix. At every point of a byte-slice send, abandoned
\* async sends included, the writes issued so far are the framed chunks
\* 0, 1, 2, ... in input order, each through the operation of its role;
\* every write but the last has returned Ok, so only the last one can be
\* in flight.
C13_InOrderPrefix ==
    (fmt = "U8" /\ N >= 8) =>
        /\ Len(writes) <= NumChunks(input, ChunkSize(N))
        /\ \A j \in 1..Len(writes) :
              /\ writes[j].via = ChunkVia(j - 1)
              /\ writes[j].bytes = ChunkEncoding(j - 1)
        /\ \A j \in 1..(Len(writes) - 1) : writes[j].res = "Ok"

\* An async send of three chunks was dropped while its second write was
\* pending: the transport has seen chunks 0 and 1 only.
C13_Witness ==
    /\ mode = "async"
    /\ pc = "cancelled"
    /\ fmt = "U8"
    /\ N = 8
    /\ NumChunks(input, ChunkSize(N)) = 3
    /\ Len(writes) = 2
    /\ writes[1].res = "Ok"
    /\ writes[2].res = "Pending"
    /\ writes[1].bytes # writes[2].bytes

\* Number of transport writes the claim allows for an input of L bytes:
\* ceil(L / floor(N*8/9)).
MaxWrites == (Len(input) + ChunkSize(N) - 1) \div ChunkSize(N)

\* C14: termination. A byte-slice send with N >= 8 never ends in a panic,
\* issues at most ceil(L / floor(N*8/9)) writes, and has returned Ok with
\* every chunk written once it stops with every write successful.
C14_Termination ==
    (fmt = "U8" /\ N >= 8 /\ mode = "blocking") =>
        /\ Len(writes) <= MaxWrites
        /\ pc # "panicked"
        /\ (pc = "returned" /\ \A j \in 1..Len(writes) : writes[j].res = "Ok") =>
              /\ result = "Ok"
              /\ Len(writes) = NumChunks(input, ChunkSize(N))

\* C23: iterator inputs are not chunked. A send of a U8Iter encodes the
\* whole iterator in one call and issues at most one write, the whole
\* encoding. The encode stays inside the buffer, and the write is issued,
\* if and only if the iterator yields at most 8 * floor(N/8) bytes; a longer
\* iterator ends in an index-out-of-bounds panic.
C23_IteratorNotChunked ==
    (fmt = "U8Iter" /\ pc # "called") =>
        /\ Len(writes) <= 1
        /\ IF Len(input) <= 8 * (N \div 8)
              THEN /\ panic = "none"
                   /\ Len(writes) = 1
                   /\ writes[1].via = op
                   /\ writes[1].bytes =
                         Slice(IF op = "send_commands"
                                  THEN format_command(input, buffer0, overflowChecks)
                                  ELSE format_data(input, buffer0, overflowChecks))
              ELSE /\ pc = "panicked"
                   /\ panic = "index_out_of_bounds"
                   /\ writes = <<>>

C10_InvalidFormat ==
    [][(pc = "called" /\ fmt = "Other") =>
            /\ pc' = "returned"
            /\ result' = "InvalidFormatError"
            /\ writes' = <<>>
            /\ buffer' = buffer]_vars

C10_Witness ==
    /\ fmt = "Other"
    /\ pc = "returned"
    /\ result = "InvalidFormatError"
    /\ writes = <<>>
    /\ N = 8
    /\ buffer = [i \in 1..8 |-> 255]

----------------------------------------------------------------------------
(* Properties of GT911::query_touch (SpecGT911) *)

\* C15: query_touch(index) with index > 4 never panics and, once it has
\* returned, has returned an error, which is InvalidPoint(index) when no I2C
\* access failed, whatever touch count (0..15) the status register reported.
C15_InvalidPoint ==
    gtIndex > 4 =>
        /\ gtPc # "panicked"
        /\ gtPc = "returned" =>
              /\ gtResult.tag \in {"InvalidPoint", "I2C"}
              /\ (\A k \in 1..Len(gtBus) : gtBus[k].res = "Ok") =>
                    gtResult = InvalidPoint(gtIndex)

IsEnter(access) == access.kind = "write" /\ access.register = "GT911_COMMAND"

IsExit(access) ==
    /\ access.kind = "write"
    /\ access.register = CLEAR_REGISTER
    /\ access.data = 0

\* Position of the last access of the bracket whose enter write is access k:
\* the one before the next enter write, or the last access so far.
BracketEnd(k) ==
    LET later == {j \in (k + 1)..Len(gtBus) : IsEnter(gtBus[j])}
    IN  IF later = {} THEN Len(gtBus)
        ELSE (CHOOSE j \in later : \A i \in later : j <= i) - 1

\* The bracket that ends at access `end` is over: the call went on to its
\* next bracket, to the index check, or has ended.
BracketOver(end) ==
    \/ end < Len(gtBus)
    \/ gtPc \in {"enter", "match", "returned", "panicked"}

\* C26: command-mode bracket. After an enter write that succeeded, the
\* accesses of the bracket are the body's reads followed by the exit write
\* (CLEAR_REGISTER <- 0): at most one exit write, nothing after it, and
\* exactly one once the bracket is over, whether the reads succeeded or not.
\* When the call returns out of the bracket, a failed exit write is what it
\* returns, and the error of a failed body read is returned if the exit
\* write succeeded.
C26_CommandModeBracket ==
    \A k \in 1..Len(gtBus) :
        (IsEnter(gtBus[k]) /\ gtBus[k].res = "Ok") =>
            LET end == BracketEnd(k)
                exits == {j \in (k + 1)..end : IsExit(gtBus[j])}
                failed == {j \in (k + 1)..end :
                              gtBus[j].kind = "read" /\ gtBus[j].res # "Ok"}
            IN  /\ \A j \in (k + 1)..end : gtBus[j].kind = "read" \/ IsExit(gtBus[j])
                /\ exits \subseteq {end}
                /\ BracketOver(end) => exits = {end}
                /\ (gtPc = "returned" /\ end = Len(gtBus)) =>
                      /\ gtBus[end].res # "Ok" =>
                            /\ gtResult.tag = "I2C"
                            /\ gtResult.error = gtBus[end].res
                      /\ (gtBus[end].res = "Ok" /\ failed # {}) =>
                            /\ gtResult.tag = "I2C"
                            /\ \E j \in failed : gtResult.error = gtBus[j].res

\* device_info entered command mode, read the product id, failed to read the
\* firmware version, left command mode and returned the error of the read.
C26_Witness ==
    /\ gtPc = "returned"
    /\ gtStage = "device_info"
    /\ Len(gtBus) = 4
    /\ IsEnter(gtBus[1]) /\ gtBus[1].res = "Ok"
    /\ gtBus[2].kind = "read" /\ gtBus[2].res = "Ok"
    /\ gtBus[3].kind = "read" /\ gtBus[3].res = "ArbitrationLoss"
    /\ IsExit(gtBus[4]) /\ gtBus[4].res = "Ok"
    /\ gtResult.tag = "I2C"
    /\ gtResult.error = "ArbitrationLoss"

----------------------------------------------------------------------------
(* Properties of GenericGps (SpecGps) *)

\* C16: receive_raw returns None exactly when the bytes accumulated since the
\* previously returned message hold no newline, and otherwise a guard whose
\* slice is those bytes up to, not including, the first newline.
C16_ReceiveRaw ==
    /\ gpsRet.tag = "None" => ~HasNewline(gpsAcc)
    /\ gpsRet.tag = "Some" =>
          /\ HasNewline(gpsAcc)
          /\ gpsRet.slice = SubSeq(gpsAcc, 1, FirstNewline(gpsAcc))

\* C17: receive_message goes on reading until it returns: it never ends in
\* a panic, whatever number of bytes arrives before the newline, and it has
\* its message as soon as the UART has delivered a newline.
C17_ReceiveMessageReturns ==
    gpsOp = "receive_message" =>
        /\ gpsPc # "panicked"
        /\ HasNewline(gpsAcc) => gpsPc \in {"guard", "returned"}

----------------------------------------------------------------------------
(* Properties of the two implementations side by side (SpecModes) *)

\* The transport answered the writes of the two sends alike, as far as both
\* got.
SamePattern ==
    \A j \in 1..Min(Len(writes), Len(blockingRun.writes)) :
        writes[j].res = blockingRun.writes[j].res

\* C21: mode equivalence. For the same capacity, call and pattern of
\* transport answers, the async send that has ended issued the same
\* transport operations with the same bytes as the blocking send and ended
\* the same way with the same result.
C21_ModeEquivalence ==
    (mode = "async" /\ blockingRun.pc # "none"
        /\ pc \in {"returned", "panicked"} /\ SamePattern) =>
        /\ writes = blockingRun.writes
        /\ result = blockingRun.result
        /\ pc = blockingRun.pc
        /\ panic = blockingRun.panic

\* Both sends of a three-chunk slice wrote two chunks and returned the error
\* of the second write.
C21_Witness ==
    /\ mode = "async"
    /\ blockingRun.pc = "returned"
    /\ pc = "returned"
    /\ fmt = "U8"
    /\ Len(writes) = 2
    /\ writes[1].res = "Ok"
    /\ writes[2].res = "DCError"
    /\ result = "DCError"
    /\ blockingRun.result = "DCError"
    /\ Len(blockingRun.writes) = 2

\* C27: receive_raw is memory-safe. In every reachable state the write index
\* is within 0..N, and no call panics: the slice scanned for a newline,
\* `buffer[..index]` on the sub-slice that starts at the previous index,
\* ends inside the buffer.
C27_ReceiveRawMemorySafe ==
    /\ gpsIndex \in 0..gpsN
    /\ gpsPc # "panicked"
    /\ gpsPanic = "none"

====
